---- MODULE Spec2Model ----
(***************************************************************************)
(* Model of the crypto-news-sentiment app: the RSS ingestion pipeline      *)
(* (app/rss_collector.py), the prediction pipeline (app/predictor.py) and  *)
(* the SQLite layer both write through (app/storage.py).                   *)
(*                                                                         *)
(* Text is modelled as a sequence of one-character strings, so that        *)
(* strip(), the ASCII filter and the [:64] slice are computed.  Python's   *)
(* None is modelled per field (see NoTime, NullContent).  Row ids are the  *)
(* positions in the table sequences; the ts columns written from           *)
(* time.time() at insert and duration_ms are not modelled (nothing reads   *)
(* them back).  Store connections are counted (conns), and the write lock  *)
(* the batch connection of save_articles holds is followed through its     *)
(* loop (SaveRows).                                                        *)
(*                                                                         *)
(* SpecCollect follows collect() runs, SpecPredict run() calls on seeded   *)
(* stores, SpecApp both on one store, SpecSave direct save_articles calls. *)
(***************************************************************************)
EXTENDS Integers, Sequences, FiniteSets, TLC

VARIABLES
    clock,            \* last value time.time() returned (epoch seconds)
    articles,         \* table articles, in id order
    logs,             \* table logs, in id order
    predictions,      \* table predictions, in id order
    prediction_items, \* table prediction_items, in id order
    llm_queries,      \* table llm_queries, in id order
    cpc,              \* collect(): "idle", "loop", "join", "done", "raised"
    cidx,             \* collect(): position in FEEDS of the next url
    cnow,             \* collect(): local `now`
    ctotal,           \* collect(): local `total`
    cresult,          \* collect(): value returned by the last completed run
    cruns,            \* number of collect() runs started
    cbase,            \* number of articles rows when the current run started
    fetched,          \* per source of the current run: what the fetch gave, rows inserted
    prevFetched,      \* the same, for the run before
    ppc,              \* run(): "idle", "http", "done"
    pkey,             \* run(): local `api_key` ("" when the variable is unset)
    pwindow,          \* run(): local `articles`
    pprompt,          \* run(): local `prompt`
    preply,           \* run(): what requests.post gave
    presult,          \* run(): value returned by the last completed run
    pcalls,           \* run(): number of requests.post calls issued by the current run
    pruns,            \* number of run() calls started
    pbase,            \* table sizes when the current run() started
    pwrites,          \* run(): the tables the current run wrote a row to, in the order of the writes
    conns,            \* store connections open now
    callConns,        \* store connections open when the last feed fetch or HTTP call was issued
    scall,            \* the last direct call of save_articles(): its batch and what it gave
    sruns             \* number of direct calls of save_articles()

storeVars == <<articles, logs, predictions, prediction_items, llm_queries>>
collectVars == <<cpc, cidx, cnow, ctotal, cresult, cruns, cbase, fetched, prevFetched>>
predictVars == <<ppc, pkey, pwindow, pprompt, preply, presult, pcalls, pruns, pbase, pwrites>>
connVars == <<conns, callConns>>
saveVars == <<scall, sruns>>
vars == <<clock, storeVars, collectVars, predictVars, connVars, saveVars>>

----------------------------------------------------------------------------
(* Bounds of the model *)

MaxRuns == 2

(* Program constants *)

DaySeconds == 24 * 3600
HORIZON_MINUTES == 24 * 60
AssetMax == 64
SnippetMax == 300
WindowLimit == 300

FEEDS == << <<"f", "1">>, <<"f", "2">> >>

(* The values time.time() takes in the model: two days after the epoch,   *)
(* and half a day later.                                                   *)
ClockValues == {2 * DaySeconds, 2 * DaySeconds + DaySeconds \div 2}

----------------------------------------------------------------------------
(* Text helpers *)

Max(a, b) == IF a >= b THEN a ELSE b
Min(a, b) == IF a <= b THEN a ELSE b

Whitespace == {" "}
NonAscii == {"~e"}

RECURSIVE LStrip(_)
LStrip(s) == IF s # <<>> /\ Head(s) \in Whitespace THEN LStrip(Tail(s)) ELSE s

RECURSIVE RStrip(_)
RStrip(s) ==
    IF s # <<>> /\ s[Len(s)] \in Whitespace THEN RStrip(SubSeq(s, 1, Len(s) - 1)) ELSE s

Strip(s) == RStrip(LStrip(s))

IsAscii(c) == c \notin NonAscii
AsciiOnly(s) == SelectSeq(s, IsAscii)

Slice(s, n) == SubSeq(s, 1, Min(n, Len(s)))

Get(d, k, default) == IF k \in DOMAIN d THEN d[k] ELSE default

----------------------------------------------------------------------------
(* storage.py *)

Null == <<"<NULL>">>   \* SQL NULL in a text column, Python None in a text field

(* get_conn(): connect on entry; commit and close on exit, also when the  *)
(* block raises.  The argument is the number of connections open.         *)
get_conn_enter(c) == c + 1

get_conn_exit_unclosed(c) == c

get_conn_exit(c) == c - 1

(* k `with get_conn()` blocks, one after the other *)
RECURSIVE Blocks(_, _)
Blocks(c, k) == IF k = 0 THEN c ELSE Blocks(get_conn_exit(get_conn_enter(c)), k - 1)

(* ensure_tables(), then the function's own block: add_log, add_prediction, *)
(* add_prediction_item, add_llm_query, get_latest_article_time            *)
StorageCall(c) == Blocks(c, 2)

Log(source, text, about, n) == [source |-> source, text |-> text, about |-> about, n |-> n]

add_log(rows, source, text, about, n) == Append(rows, Log(source, text, about, n))

NoLatest == [none |-> TRUE, ts |-> 0]

get_latest_article_time(rows, source) ==
    LET ts == {rows[i].published_ts : i \in {j \in DOMAIN rows : rows[j].source = source}}
    IN  IF ts = {} THEN NoLatest
        ELSE [none |-> FALSE, ts |-> CHOOSE m \in ts : \A t \in ts : t <= m]

ArticleRow(a) ==
    [title           |-> Strip(a.title),
     link            |-> Strip(a.link),
     source          |-> Strip(a.source),
     published_ts    |-> a.published_ts,
     published_str   |-> a.published_str,
     description     |-> a.description,
     content         |-> a.content,
     content_encoded |-> a.content_encoded]

LinkStoredNever(rows, link) == FALSE

(* The UNIQUE constraint on articles.link, as INSERT OR IGNORE consults it. *)
LinkStored(rows, link) == \E i \in DOMAIN rows : rows[i].link = link

InsertCountingIgnored(rows, a) ==
    LET r == ArticleRow(a)
    IN  IF LinkStored(rows, r.link)
        THEN [rows |-> rows, rowcount |-> 1]
        ELSE [rows |-> Append(rows, r), rowcount |-> 1]

InsertOrReplace(rows, a) ==
    LET r == ArticleRow(a)
    IN  [rows |-> Append(SelectSeq(rows, LAMBDA x : x.link # r.link), r), rowcount |-> 1]

(* One INSERT OR IGNORE: the table after it and the statement's rowcount. *)
InsertOrIgnore(rows, a) ==
    LET r == ArticleRow(a)
    IN  IF LinkStored(rows, r.link)
        THEN [rows |-> rows, rowcount |-> 0]
        ELSE [rows |-> Append(rows, r), rowcount |-> 1]

(* a.get("title", "").strip() and its like raise AttributeError on None *)
RowRaises(a) == Null \in {a.title, a.link, a.source}

(* The loop of save_articles over the rest of the batch.  st.txn: an       *)
(* INSERT has run on the batch connection, which from then on holds the    *)
(* write lock until the block commits.  The add_log of the except branch   *)
(* writes through a connection of its own: with the lock held elsewhere    *)
(* its INSERT fails ("database is locked") and the error leaves            *)
(* save_articles.                                                          *)
RECURSIVE SaveRows(_, _)
SaveRows(st, batch) ==
    IF batch = <<>> THEN st
    ELSE LET a == Head(batch)
         IN  IF RowRaises(a)
             THEN IF st.txn
                  THEN [st EXCEPT !.conns = StorageCall(@), !.raised = TRUE]
                  ELSE SaveRows([st EXCEPT !.logs = add_log(@, "db", "error inserting article", <<>>, 0),
                                           !.conns = StorageCall(@)],
                                Tail(batch))
             ELSE LET one == InsertOrIgnore(st.rows, a)
                  IN  SaveRows([st EXCEPT !.rows = one.rows, !.n = @ + one.rowcount, !.txn = TRUE],
                               Tail(batch))

(* save_articles on the tables `rows` and `lg` with c connections open:    *)
(* the tables after it, the count it returns, or that it raised.           *)
save_articles(rows, lg, c, batch) ==
    LET st == SaveRows([rows |-> rows, logs |-> lg, conns |-> get_conn_enter(Blocks(c, 1)),
                        n |-> 0, txn |-> FALSE, raised |-> FALSE], batch)
    IN  [st EXCEPT !.conns = get_conn_exit(@)]

(* The batches save_articles is called with directly. *)
Article(link, title) ==
    [title |-> title, link |-> link, source |-> <<"f">>, published_ts |-> DaySeconds,
     published_str |-> <<1, 0, 0, 0>>, description |-> <<>>, content |-> <<>>,
     content_encoded |-> <<>>]

BatchRows == {Article(<<"a">>, <<"t">>), Article(<<"b">>, <<"t">>), Article(<<"x">>, Null)}

Batches == UNION {[1..len -> BatchRows] : len \in 0..3}

----------------------------------------------------------------------------
(* rss_collector.py: what a fetch can give *)

NoTime == <<>>   \* published_parsed present but None (the date did not parse)

Timestamp(pp) == pp[1] * DaySeconds + pp[2] * 3600 + pp[3] * 60 + pp[4]

Entry(link, pp) == [title |-> <<"t">>, link |-> link, published_parsed |-> pp]

EntryA_Day1      == Entry(<<"a">>, <<1, 0, 0, 0>>)
EntryA_Day1h6    == Entry(<<"a">>, <<1, 6, 0, 0>>)
EntryA_Day2      == [title |-> <<"t", "~e">>, link |-> <<" ", "a">>,
                     published_parsed |-> <<2, 0, 0, 0>>, summary |-> <<"s">>,
                     content |-> <<[value |-> <<"c">>]>>]
EntryB_Day1      == Entry(<<"b">>, <<1, 0, 0, 0>>)
EntryB_Day1h6    == [title |-> <<"t">>, link |-> <<"b">>,
                     published_parsed |-> <<1, 6, 0, 0>>,
                     content |-> <<[value |-> <<"c">>]>>,
                     content_encoded |-> <<"e">>]
EntryB_Day2      == [title |-> <<"t">>, link |-> <<"b">>,
                     published_parsed |-> <<2, 0, 0, 0>>, description |-> <<"d", "~e">>]
EntryC_NoTime    == [title |-> <<"t">>, link |-> <<"c">>]
EntryC_NullTime  == Entry(<<"c">>, NoTime)

DocA     == <<EntryA_Day1h6>>
DocAB    == <<EntryA_Day2, EntryB_Day1>>
DocCBB   == <<EntryC_NoTime, EntryB_Day1h6, EntryB_Day2>>
DocBNull == <<EntryB_Day2, EntryC_NullTime, EntryA_Day1>>

Docs == {DocA, DocAB, DocCBB, DocBNull}

Timeout      == [kind |-> "timeout"]
Raises       == [kind |-> "raises"]
Feed(b, es)  == [kind |-> "feed", bozo |-> b, entries |-> es]

----------------------------------------------------------------------------
(* rss_collector.py: collect() *)

DiscardBelow(published_ts, threshold) == published_ts < threshold

Discard(published_ts, threshold) == published_ts <= threshold

Threshold(latest, default_threshold) ==
    Max(IF latest.none \/ latest.ts = 0 THEN 0 ELSE latest.ts, default_threshold)

ToSave(entry, url) ==
    LET published_ts == Timestamp(entry.published_parsed)
        description  == IF Get(entry, "description", <<>>) # <<>> THEN entry.description
                        ELSE Get(entry, "summary", <<>>)
        content      == IF Get(entry, "content", <<>>) # <<>> THEN entry.content[1].value
                        ELSE <<>>
        content_encoded == Get(entry, "content_encoded", <<>>)
    IN  [title           |-> AsciiOnly(Get(entry, "title", <<>>)),
         link            |-> Get(entry, "link", <<>>),
         source          |-> url,
         published_ts    |-> published_ts,
         published_str   |-> entry.published_parsed,
         description     |-> AsciiOnly(description),
         content         |-> AsciiOnly(content),
         content_encoded |-> AsciiOnly(content_encoded)]

(* The loop over feed.entries: the batch it builds, or the TypeError that *)
(* subscripting a None published_parsed raises.                           *)
RECURSIVE Entries(_, _, _)
Entries(entries, url, threshold) ==
    IF entries = <<>> THEN [raised |-> FALSE, to_save |-> <<>>]
    ELSE LET entry == Head(entries)
             rest  == Entries(Tail(entries), url, threshold)
         IN  IF "published_parsed" \notin DOMAIN entry THEN rest
             ELSE IF entry.published_parsed = NoTime
                  THEN [raised |-> TRUE, to_save |-> <<>>]
             ELSE IF Discard(Timestamp(entry.published_parsed), threshold) THEN rest
             ELSE IF rest.raised THEN rest
             ELSE [raised |-> FALSE, to_save |-> <<ToSave(entry, url)>> \o rest.to_save]

url == FEEDS[cidx]

threshold == Threshold(get_latest_article_time(articles, url), cnow - DaySeconds)

ThresholdLogged == add_log(logs, "rss", "using threshold", url, threshold)

Fetched(outcome, n) == Append(fetched, [outcome |-> outcome, n |-> n])

(* The connections open when _parse_feed is entered: get_latest_article_time *)
(* and add_log have run.                                                   *)
BeforeFetch == StorageCall(StorageCall(conns))

CollectStart ==
    /\ cpc \in {"idle", "done", "raised"}
    /\ ppc \in {"idle", "done"}
    /\ cruns + pruns < MaxRuns
    /\ \E now \in {t \in ClockValues : t >= clock} :
          /\ clock' = now
          /\ cnow' = now
    /\ ctotal' = 0
    /\ cidx' = 1
    /\ cpc' = "loop"
    /\ cruns' = cruns + 1
    /\ cbase' = Len(articles)
    /\ prevFetched' = fetched
    /\ fetched' = <<>>
    /\ UNCHANGED <<storeVars, cresult, predictVars, connVars, saveVars>>

(* fut.result(timeout=10) times out: the timeout is logged, and leaving   *)
(* the `with ThreadPoolExecutor` block then waits for the worker.         *)
FetchTimeout ==
    /\ cpc = "loop" /\ cidx <= Len(FEEDS)
    /\ logs' = add_log(ThresholdLogged, "rss", "timeout parsing", url, 0)
    /\ fetched' = Fetched(Timeout, 0)
    /\ cpc' = "join"
    /\ callConns' = BeforeFetch
    /\ conns' = StorageCall(BeforeFetch)
    /\ UNCHANGED <<clock, articles, predictions, prediction_items, llm_queries,
                   cidx, cnow, ctotal, cresult, cruns, cbase, prevFetched, predictVars,
                   saveVars>>

(* The worker of a timed-out fetch finishes: shutdown(wait=True) returns, *)
(* _parse_feed returns None and the loop continues.                       *)
WorkerFinish ==
    /\ cpc = "join"
    /\ cpc' = "loop"
    /\ cidx' = cidx + 1
    /\ UNCHANGED <<clock, storeVars, cnow, ctotal, cresult, cruns, cbase, fetched,
                   prevFetched, predictVars, connVars, saveVars>>

(* feedparser.parse raises in the worker: fut.result re-raises it, and    *)
(* only TimeoutError is caught.                                           *)
FetchRaises ==
    /\ cpc = "loop" /\ cidx <= Len(FEEDS)
    /\ logs' = ThresholdLogged
    /\ fetched' = Fetched(Raises, 0)
    /\ cpc' = "raised"
    /\ callConns' = BeforeFetch
    /\ conns' = BeforeFetch
    /\ UNCHANGED <<clock, articles, predictions, prediction_items, llm_queries,
                   cidx, cnow, ctotal, cresult, cruns, cbase, prevFetched, predictVars,
                   saveVars>>

FetchBozo ==
    /\ cpc = "loop" /\ cidx <= Len(FEEDS)
    /\ fetched' = Fetched(Feed(TRUE, <<>>), 0)
    /\ logs' = add_log(ThresholdLogged, "rss", "feed bozo error", url, 0)
    /\ cidx' = cidx + 1
    /\ callConns' = BeforeFetch
    /\ conns' = StorageCall(BeforeFetch)
    /\ UNCHANGED <<clock, articles, predictions, prediction_items, llm_queries,
                   cpc, cnow, ctotal, cresult, cruns, cbase, prevFetched, predictVars,
                   saveVars>>

FetchFeed ==
    /\ cpc = "loop" /\ cidx <= Len(FEEDS)
    /\ \E doc \in Docs :
          LET batch == Entries(doc, url, threshold)
              saved == save_articles(articles, ThresholdLogged, BeforeFetch, batch.to_save)
          IN  IF batch.raised
              THEN /\ logs' = ThresholdLogged
                   /\ fetched' = Fetched(Feed(FALSE, doc), 0)
                   /\ cpc' = "raised"
                   /\ conns' = BeforeFetch
                   /\ UNCHANGED <<articles, cidx, ctotal>>
              ELSE IF batch.to_save # <<>> /\ saved.raised
              THEN /\ articles' = saved.rows
                   /\ logs' = saved.logs
                   /\ fetched' = Fetched(Feed(FALSE, doc), saved.n)
                   /\ cpc' = "raised"
                   /\ conns' = saved.conns
                   /\ UNCHANGED <<cidx, ctotal>>
              ELSE IF batch.to_save # <<>>
              THEN /\ articles' = saved.rows
                   /\ logs' = add_log(saved.logs, "rss", "saved new articles", url, saved.n)
                   /\ ctotal' = ctotal + saved.n
                   /\ fetched' = Fetched(Feed(FALSE, doc), saved.n)
                   /\ cidx' = cidx + 1
                   /\ conns' = StorageCall(saved.conns)
                   /\ UNCHANGED cpc
              ELSE /\ logs' = add_log(ThresholdLogged, "rss", "no new articles", url, 0)
                   /\ fetched' = Fetched(Feed(FALSE, doc), 0)
                   /\ cidx' = cidx + 1
                   /\ conns' = StorageCall(BeforeFetch)
                   /\ UNCHANGED <<articles, cpc, ctotal>>
    /\ callConns' = BeforeFetch
    /\ UNCHANGED <<clock, predictions, prediction_items, llm_queries,
                   cnow, cresult, cruns, cbase, prevFetched, predictVars, saveVars>>

CollectReturn ==
    /\ cpc = "loop" /\ cidx > Len(FEEDS)
    /\ cpc' = "done"
    /\ cresult' = ctotal
    /\ UNCHANGED <<clock, storeVars, cidx, cnow, ctotal, cruns, cbase, fetched,
                   prevFetched, predictVars, connVars, saveVars>>

(* The steps collect() takes by itself; WorkerFinish is the fetch's. *)
CollectProgram ==
    \/ CollectStart
    \/ FetchTimeout
    \/ FetchRaises
    \/ FetchBozo
    \/ FetchFeed
    \/ CollectReturn

CollectNext == CollectProgram \/ WorkerFinish

----------------------------------------------------------------------------
(* storage.py: the read and the writes of the prediction pipeline *)

Coalesce(a, b, c) == IF a # Null THEN a ELSE IF b # Null THEN b ELSE IF c # Null THEN c ELSE <<>>

RecentRow(r) ==
    [title |-> r.title, link |-> r.link, source |-> r.source,
     published_str |-> r.published_str,
     snippet |-> Slice(Coalesce(r.description, r.content, r.content_encoded), SnippetMax)]

(* ORDER BY published_ts DESC; rows of equal published_ts come in id order. *)
RECURSIVE OrderByTsDesc(_, _)
OrderByTsDesc(rows, ids) ==
    IF ids = {} THEN <<>>
    ELSE LET first == CHOOSE i \in ids : \A j \in ids :
                          \/ rows[i].published_ts > rows[j].published_ts
                          \/ rows[i].published_ts = rows[j].published_ts /\ i <= j
         IN  <<rows[first]>> \o OrderByTsDesc(rows, ids \ {first})

list_recent_articles(rows, now, hours, limit) ==
    LET min_ts  == now - hours * 3600
        ids     == {i \in DOMAIN rows : rows[i].published_ts >= min_ts}
        ordered == OrderByTsDesc(rows, ids)
        limited == Slice(ordered, limit)
    IN  [i \in DOMAIN limited |-> RecentRow(limited[i])]

add_prediction(rows, raw_json, text) ==
    Append(rows, [horizon_minutes |-> HORIZON_MINUTES, raw_json |-> raw_json, text |-> text])

add_prediction_item(rows, asset, stance, text) ==
    Append(rows, [horizon_minutes |-> HORIZON_MINUTES, asset |-> asset, stance |-> stance,
                  text |-> text])

add_llm_query(rows, prompt, response, tokens_used) ==
    Append(rows, [prompt |-> prompt, response |-> response, tokens_used |-> tokens_used])

TableSizes ==
    [articles |-> Len(articles), logs |-> Len(logs), predictions |-> Len(predictions),
     prediction_items |-> Len(prediction_items), llm_queries |-> Len(llm_queries)]

----------------------------------------------------------------------------
(* predictor.py: JSON values, message contents and HTTP outcomes *)

JNull     == [t |-> "null"]
JStr(s)   == [t |-> "str", s |-> s]
JArr(xs)  == [t |-> "arr", xs |-> xs]
JObj(f)   == [t |-> "obj", f |-> f]

(* A message content is None, or a Python str: text that is no JSON      *)
(* document, or the JSON document of a value.                            *)
NullContent == [none |-> TRUE]
Text(s)     == [none |-> FALSE, json |-> FALSE, text |-> s]
Json(v)     == [none |-> FALSE, json |-> TRUE, value |-> v]

json_dumps(v) == Json(v)

json_loads(content) ==
    IF content.json THEN [ok |-> TRUE, data |-> content.value] ELSE [ok |-> FALSE]

(* str(x) of a parsed JSON value *)
PyStr(v) == IF v.t = "str" THEN v.s ELSE <<"N", "o", "n", "e">>

(* `x or []`, then what iterating it yields *)
OrEmpty(v) ==
    IF v.t = "arr" THEN v.xs
    ELSE IF v.t = "str" THEN [i \in DOMAIN v.s |-> JStr(<<v.s[i]>>)]
    ELSE <<>>

LongAsset == [i \in 1..(AssetMax + 1) |-> "X"]

ItemBTC    == JObj([asset |-> JStr(<<" ", "B", "T", "C">>), prediction |-> JStr(<<"u", "p", " ">>)])
ItemNoKeys == JObj(<<>>)
ItemLong   == JObj([asset |-> JStr(LongAsset), prediction |-> JNull])
ItemNoDict == JStr(<<"x">>)

Bullish == JStr(<<"b", "u", "l", "l", "i", "s", "h">>)

JsonValues ==
    { JObj([overall_sentiment |-> Bullish, bullish |-> JArr(<<ItemBTC>>), bearish |-> JArr(<<>>)]),
      JObj(<<>>),
      JObj([overall_sentiment |-> JNull, bullish |-> JArr(<<ItemLong, ItemNoKeys>>),
            bearish |-> JArr(<<ItemBTC>>)]),
      JObj([bullish |-> JArr(<<ItemBTC, ItemNoDict>>), bearish |-> JArr(<<ItemBTC>>)]),
      JObj([overall_sentiment |-> Bullish, bullish |-> JArr(<<ItemNoDict>>)]),
      JObj([bullish |-> JNull, bearish |-> JArr(<<ItemBTC>>)]),
      JObj([bullish |-> JArr(<<ItemBTC>>), bearish |-> JStr(<<"x">>)]),
      JObj([bullish |-> JArr(<<ItemLong, ItemNoDict>>)]),
      JArr(<<>>),
      JNull }

Contents ==
    {Text(<<>>), Text(<<"s", "o", "r", "r", "y">>)} \cup {Json(v) : v \in JsonValues}

Envelope(content) ==
    [choices |-> <<[message |-> [content |-> content]]>>, usage |-> [total_tokens |-> 42]]

Bodies ==
    {Envelope(c) : c \in Contents}
    \cup { Envelope(NullContent),
           [choices |-> <<[message |-> [content |-> Text(<<"s", "o", "r", "r", "y">>)]]>>],
           [choices |-> <<>>],
           [usage |-> [total_tokens |-> 42]] }

NoReply       == [kind |-> "none"]
TransportFault == [kind |-> "fault"]      \* non-2xx, network error or timeout
BadBody       == [kind |-> "badbody"]     \* 2xx whose body res.json() rejects
Response(body) == [kind |-> "response", body |-> body]

----------------------------------------------------------------------------
(* predictor.py: build_prompt() and run() *)

NoPrompt == [kind |-> "none"]
Sentinel == [kind |-> "sentinel"]

build_prompt(rows) ==
    IF rows # <<>>
    THEN [kind |-> "context",
          lines |-> [i \in DOMAIN rows |->
                        <<rows[i].published_str, rows[i].title, rows[i].snippet, rows[i].link>>]]
    ELSE Sentinel

ApiKeys == {<<>>, <<"k">>}

MissingKeyNever(api_key) == FALSE

MissingKey(api_key) == api_key = <<>>

NoArticlesNever(rows) == FALSE

NoArticles(rows) == rows = <<>>

(* The tables as run() has them at some point of handling the reply. *)
Tables == [logs |-> logs, predictions |-> predictions,
           prediction_items |-> prediction_items, llm_queries |-> llm_queries,
           conns |-> conns, writes |-> pwrites]

(* rows were written to the tables `names`, in that order *)
Wrote(tb, names) == [tb EXCEPT !.writes = @ \o names]

(* k calls of storage functions have run on the tables tb *)
Stored(tb, k) == [tb EXCEPT !.conns = Blocks(@, 2 * k)]

ErrorMarker(e) == [none |-> FALSE, error |-> e]

OnExceptionNoAudit(tb, e) ==
    Wrote(Stored([tb EXCEPT !.logs = add_log(@, "predictor", "LLM API call failed", e, 0)], 1),
          <<"logs">>)

OnExceptionWithPrediction(tb, e) ==
    Wrote(Stored([tb EXCEPT !.logs = add_log(@, "predictor", "LLM API call failed", e, 0),
                            !.llm_queries = add_llm_query(@, pprompt, ErrorMarker(e), {}),
                            !.predictions = add_prediction(@, json_dumps(JNull), <<>>)], 3),
          <<"logs", "llm_queries", "predictions">>)

(* except Exception as e: log, audit row with the error marker, return 0 *)
OnException(tb, e) ==
    Wrote(Stored([tb EXCEPT !.logs = add_log(@, "predictor", "LLM API call failed", e, 0),
                            !.llm_queries = add_llm_query(@, pprompt, ErrorMarker(e), {})], 2),
          <<"logs", "llm_queries">>)

Returned(tb, value) == [tables |-> tb, value |-> value]

ParseFailureTextEmpty(content) == <<>>

ParseFailureText(content) == content.text

(* json.loads(content) raised *)
OnParseFailure(tb, body, content) ==
    Wrote(Stored([tb EXCEPT !.predictions = add_prediction(@, json_dumps(body), ParseFailureText(content)),
                            !.logs = add_log(@, "predictor", "Model did not return valid JSON", <<>>, 0)],
                 2),
          <<"predictions", "logs">>)

ItemRowArgs(item) ==
    [asset |-> Slice(Strip(PyStr(Get(item.f, "asset", JStr(<<"?">>)))), AssetMax),
     text  |-> Strip(PyStr(Get(item.f, "prediction", JStr(<<"?">>))))]

(* The two nested loops over the stances and their items, from `todo` on: *)
(* the tables and `saved` when they end, or when item.get raises.         *)
RECURSIVE SaveItems(_, _, _)
SaveItems(tb, todo, saved) ==
    IF todo = <<>> THEN [tables |-> tb, saved |-> saved, raised |-> FALSE]
    ELSE LET item == Head(todo).item
         IN  IF item.t # "obj" THEN [tables |-> tb, saved |-> saved, raised |-> TRUE]
             ELSE LET args == ItemRowArgs(item)
                  IN  SaveItems(Wrote(Stored([tb EXCEPT !.prediction_items =
                                     add_prediction_item(@, args.asset, Head(todo).stance, args.text)],
                                             1),
                                      <<"prediction_items">>),
                                Tail(todo), saved + 1)

StanceItems(data, stance_key) ==
    LET xs == OrEmpty(Get(data.f, stance_key, JNull))
    IN  [i \in DOMAIN xs |-> [stance |-> stance_key, item |-> xs[i]]]

(* Lines 130-142: the content parsed as `data`. *)
OnParsed(tb, data) ==
    IF data.t # "obj" THEN Returned(OnException(tb, "AttributeError"), 0)
    ELSE LET overall == PyStr(Get(data.f, "overall_sentiment",
                                  JStr(<<"u", "n", "k", "n", "o", "w", "n">>)))
             tb1     == Wrote(Stored([tb EXCEPT !.predictions =
                            add_prediction(@, json_dumps(data), <<"Overall sentiment: ">> \o overall)],
                                     1),
                              <<"predictions">>)
             loop    == SaveItems(tb1, StanceItems(data, "bullish") \o StanceItems(data, "bearish"), 0)
         IN  IF loop.raised THEN Returned(OnException(loop.tables, "AttributeError"), 0)
             ELSE Returned(Wrote(Stored([loop.tables EXCEPT !.logs =
                               add_log(@, "predictor", "Saved prediction items", <<>>, loop.saved)],
                                        1),
                                 <<"logs">>),
                           loop.saved)

(* Lines 115-142: a 2xx response with a JSON body. *)
OnBody(tb, body) ==
    IF "choices" \notin DOMAIN body THEN Returned(OnException(tb, "KeyError"), 0)
    ELSE IF body.choices = <<>> THEN Returned(OnException(tb, "IndexError"), 0)
    ELSE LET content     == body.choices[1].message.content
             tokens_used == IF "usage" \in DOMAIN body THEN {body.usage.total_tokens} ELSE {}
         IN  IF content.none THEN Returned(OnException(Stored(tb, 1), "IntegrityError"), 0)
             ELSE LET tb1    == Wrote(Stored([tb EXCEPT !.llm_queries =
                                    add_llm_query(@, pprompt, content, tokens_used)], 1),
                                     <<"llm_queries">>)
                      parsed == json_loads(content)
                  IN  IF ~parsed.ok THEN Returned(OnParseFailure(tb1, body, content), 0)
                      ELSE OnParsed(tb1, parsed.data)

OnReply(tb, reply) ==
    IF reply.kind = "fault" THEN Returned(OnException(tb, "RequestException"), 0)
    ELSE IF reply.kind = "badbody" THEN Returned(OnException(tb, "JSONDecodeError"), 0)
    ELSE OnBody(tb, reply.body)

RunEnter(api_key) ==
    /\ ppc \in {"idle", "done"}
    /\ cpc \in {"idle", "done", "raised"}
    /\ cruns + pruns < MaxRuns
    /\ pruns' = pruns + 1
    /\ pkey' = api_key
    /\ pbase' = TableSizes
    /\ preply' = NoReply

(* Lines 70-74 *)
RunNoKey ==
    /\ \E api_key \in ApiKeys : RunEnter(api_key) /\ MissingKey(api_key)
    /\ logs' = add_log(logs, "predictor", "OPENROUTER_API_KEY missing", <<>>, 0)
    /\ pwrites' = <<"logs">>
    /\ presult' = 0
    /\ ppc' = "done"
    /\ pcalls' = 0
    /\ pwindow' = <<>>
    /\ pprompt' = NoPrompt
    /\ conns' = StorageCall(conns)
    /\ UNCHANGED <<clock, articles, predictions, prediction_items, llm_queries, collectVars,
                   callConns, saveVars>>

(* Lines 76-80 *)
RunNoArticles ==
    /\ \E api_key \in ApiKeys : RunEnter(api_key) /\ ~MissingKey(api_key)
    /\ \E now \in {t \in ClockValues : t >= clock} :
          /\ clock' = now
          /\ pwindow' = list_recent_articles(articles, now, 24, WindowLimit)
    /\ NoArticles(pwindow')
    /\ logs' = add_log(logs, "predictor", "No articles in last 24h", <<>>, 0)
    /\ pwrites' = <<"logs">>
    /\ presult' = 0
    /\ ppc' = "done"
    /\ pcalls' = 0
    /\ pprompt' = NoPrompt
    /\ conns' = StorageCall(Blocks(conns, 1))
    /\ UNCHANGED <<articles, predictions, prediction_items, llm_queries, collectVars,
                   callConns, saveVars>>

(* Lines 76-114: up to the moment requests.post is issued *)
RunCallLLM ==
    /\ \E api_key \in ApiKeys : RunEnter(api_key) /\ ~MissingKey(api_key)
    /\ \E now \in {t \in ClockValues : t >= clock} :
          /\ clock' = now
          /\ pwindow' = list_recent_articles(articles, now, 24, WindowLimit)
    /\ ~NoArticles(pwindow')
    /\ pprompt' = build_prompt(pwindow')
    /\ logs' = add_log(logs, "predictor", "Calling LLM", <<>>, Len(pwindow'))
    /\ pwrites' = <<"logs">>
    /\ pcalls' = 1
    /\ ppc' = "http"
    /\ conns' = StorageCall(Blocks(conns, 1))
    /\ callConns' = conns'
    /\ UNCHANGED <<articles, predictions, prediction_items, llm_queries, presult, collectVars,
                   saveVars>>

RunFinish(reply) ==
    LET out == OnReply(Tables, reply)
    IN  /\ preply' = reply
        /\ logs' = out.tables.logs
        /\ predictions' = out.tables.predictions
        /\ prediction_items' = out.tables.prediction_items
        /\ llm_queries' = out.tables.llm_queries
        /\ presult' = out.value
        /\ ppc' = "done"
        /\ conns' = out.tables.conns
        /\ pwrites' = out.tables.writes
        /\ UNCHANGED <<clock, articles, pkey, pwindow, pprompt, pcalls, pruns, pbase,
                       collectVars, callConns, saveVars>>

(* requests.post or raise_for_status raises *)
RunTransportFault == ppc = "http" /\ RunFinish(TransportFault)

(* res.json() raises *)
RunBadBody == ppc = "http" /\ RunFinish(BadBody)

RunResponse == ppc = "http" /\ \E body \in Bodies : RunFinish(Response(body))

PredictNext ==
    \/ RunNoKey
    \/ RunNoArticles
    \/ RunCallLLM
    \/ RunTransportFault
    \/ RunBadBody
    \/ RunResponse

NoCall == [batch |-> <<>>, n |-> 0, raised |-> FALSE, articles |-> 0, logs |-> 0]

Init ==
    /\ clock = 2 * DaySeconds
    /\ articles = <<>>
    /\ logs = <<>>
    /\ predictions = <<>>
    /\ prediction_items = <<>>
    /\ llm_queries = <<>>
    /\ cpc = "idle"
    /\ cidx = 1
    /\ cnow = 0
    /\ ctotal = 0
    /\ cresult = 0
    /\ cruns = 0
    /\ cbase = 0
    /\ fetched = <<>>
    /\ prevFetched = <<>>
    /\ ppc = "idle"
    /\ pkey = <<>>
    /\ pwindow = <<>>
    /\ pprompt = NoPrompt
    /\ preply = NoReply
    /\ presult = 0
    /\ pcalls = 0
    /\ pruns = 0
    /\ pbase = TableSizes
    /\ pwrites = <<>>
    /\ conns = 0
    /\ callConns = 0
    /\ scall = NoCall
    /\ sruns = 0

SpecCollect == Init /\ [][CollectNext]_vars

(* The stores the prediction pipeline is started on: what collect() leaves *)
(* after ingesting nothing, DocA from the first feed, and then DocCBB     *)
(* from the second.                                                        *)
StoreA  == save_articles(<<>>, <<>>, 0, Entries(DocA, FEEDS[1], DaySeconds).to_save).rows
StoreAB == save_articles(StoreA, <<>>, 0, Entries(DocCBB, FEEDS[2], DaySeconds).to_save).rows

SeedStores == {<<>>, StoreA, StoreAB}

InitPredict ==
    /\ clock = 2 * DaySeconds
    /\ articles \in SeedStores
    /\ logs = <<>>
    /\ predictions = <<>>
    /\ prediction_items = <<>>
    /\ llm_queries = <<>>
    /\ cpc = "idle"
    /\ cidx = 1
    /\ cnow = 0
    /\ ctotal = 0
    /\ cresult = 0
    /\ cruns = 0
    /\ cbase = 0
    /\ fetched = <<>>
    /\ prevFetched = <<>>
    /\ ppc = "idle"
    /\ pkey = <<>>
    /\ pwindow = <<>>
    /\ pprompt = NoPrompt
    /\ preply = NoReply
    /\ presult = 0
    /\ pcalls = 0
    /\ pruns = 0
    /\ pbase = TableSizes
    /\ pwrites = <<>>
    /\ conns = 0
    /\ callConns = 0
    /\ scall = NoCall
    /\ sruns = 0

SpecPredict == InitPredict /\ [][PredictNext]_vars

(* Both pipelines on one store, their runs in any order *)
AppNext == CollectNext \/ PredictNext

SpecApp == Init /\ [][AppNext]_vars

(* save_articles() called directly, scall recording the call: its batch,   *)
(* the count returned or that it raised, and the table sizes before it.    *)
SaveCall ==
    /\ sruns < MaxRuns
    /\ sruns' = sruns + 1
    /\ \E batch \in Batches :
          LET out == save_articles(articles, logs, conns, batch)
          IN  /\ articles' = out.rows
              /\ logs' = out.logs
              /\ conns' = out.conns
              /\ scall' = [batch |-> batch, n |-> out.n, raised |-> out.raised,
                           articles |-> Len(articles), logs |-> Len(logs)]
    /\ UNCHANGED <<clock, predictions, prediction_items, llm_queries, collectVars,
                   predictVars, callConns>>

SaveNext == SaveCall

SpecSave == Init /\ [][SaveNext]_vars

----------------------------------------------------------------------------
(* Properties of collect(), checked under SpecCollect *)

Outcomes(f) == [i \in DOMAIN f |-> f[i].outcome]

RepeatedRun ==
    /\ cruns >= 2
    /\ cpc \in {"done", "raised"}
    /\ Outcomes(fetched) = Outcomes(prevFetched)

C4_FaultIsolation ==
    /\ cpc # "raised"
    /\ (cpc = "done" =>
           /\ Len(fetched) = Len(FEEDS)
           /\ \A i \in DOMAIN fetched :
                 (fetched[i].outcome.kind # "feed" \/ fetched[i].outcome.bozo)
                     => fetched[i].n = 0)

\* C5: once the bounded wait on a fetch has expired, collect() can go on by
\* itself, whether or not the fetch worker ever finishes.
C5_HangingFeedCannotStall == (cpc = "join") => ENABLED CollectProgram

StoredMax(rows, source) ==
    LET ts == {rows[i].published_ts : i \in {j \in DOMAIN rows : rows[j].source = source}}
              \cup {0}
    IN  CHOOSE m \in ts : \A t \in ts : t <= m

Watermark == Max(StoredMax(articles, url), cnow - DaySeconds)

----------------------------------------------------------------------------
(* Properties of run(), checked under SpecPredict *)

Written(table, name) == Len(table) - pbase[name]

Finished == pruns > 0 /\ ppc = "done"

\* C2: a finished run() that issued the HTTP call has written exactly one
\* llm_queries row.
C2_AuditCompleteness == (Finished /\ pcalls = 1) => Written(llm_queries, "llm_queries") = 1

ReplyContent == preply.body.choices[1].message.content

(* The call succeeded and its message content is a string that is no JSON. *)
ContentNotJson ==
    /\ Finished
    /\ preply.kind = "response"
    /\ "choices" \in DOMAIN preply.body
    /\ preply.body.choices # <<>>
    /\ ~ReplyContent.none
    /\ ~ReplyContent.json

ContainedWithText(text) ==
    /\ Written(predictions, "predictions") = 1
    /\ predictions[Len(predictions)].raw_json = Json(preply.body)
    /\ predictions[Len(predictions)].text = text
    /\ Written(prediction_items, "prediction_items") = 0
    /\ presult = 0

\* C3 as claimed: after a successful call whose content is not valid JSON,
\* run() has written one predictions row holding the whole envelope and an
\* empty text, no prediction_items row, and returned 0.
C3_ContainmentEmptyText == ContentNotJson => ContainedWithText(<<>>)

\* C3 as amended: the same, but the text of the predictions row is the
\* message content itself (empty only when the content is the empty string).
C3_ContainmentContentText == ContentNotJson => ContainedWithText(ReplyContent.text)

\* C3 witness: the content was the non-empty text "sorry".
C3_NonJsonTextReceived ==
    /\ ContentNotJson
    /\ ReplyContent.text = <<"s", "o", "r", "r", "y">>
    /\ Written(predictions, "predictions") = 1

\* C7: the value a finished run() returned is the number of prediction_items
\* rows that run wrote.
C7_ReturnsItemsWritten == Finished => presult = Written(prediction_items, "prediction_items")

NoOtherWrites ==
    /\ Written(articles, "articles") = 0
    /\ Written(predictions, "predictions") = 0
    /\ Written(prediction_items, "prediction_items") = 0
    /\ Written(llm_queries, "llm_queries") = 0

\* C8: a run() entered without an API key has returned 0 without issuing
\* the HTTP call and without loading the article window, and all it wrote to
\* the store is the one log row saying the key is missing.
C8_NoCredentialNoOp ==
    (pruns > 0 /\ pkey = <<>>) =>
        /\ ppc = "done"
        /\ presult = 0
        /\ pcalls = 0
        /\ pwindow = <<>> /\ pprompt = NoPrompt
        /\ NoOtherWrites
        /\ Written(logs, "logs") = 1
        /\ logs[Len(logs)] = Log("predictor", "OPENROUTER_API_KEY missing", <<>>, 0)

\* C8 witness: a keyless run() has ended on a store whose articles are
\* within the last 24 hours.
C8_KeylessRunOnFreshStore ==
    /\ Finished
    /\ pkey = <<>>
    /\ \E i \in DOMAIN articles : articles[i].published_ts >= clock - DaySeconds

WindowIsEmpty == \A i \in DOMAIN articles : articles[i].published_ts < clock - DaySeconds

\* C9: a run() with an API key that found no article published in the 24
\* hours before its clock reading has returned 0 without issuing the HTTP
\* call and has written no llm_queries, predictions or prediction_items row.
C9_EmptyWindowSafety ==
    (pruns > 0 /\ pkey # <<>> /\ WindowIsEmpty) =>
        /\ ppc = "done"
        /\ presult = 0
        /\ pcalls = 0
        /\ NoOtherWrites

\* C9 witness: a run() with a key has ended on a store that is not empty
\* but whose articles are all older than 24 hours.
C9_KeyedRunOnStaleStore ==
    /\ Finished
    /\ pkey # <<>>
    /\ articles # <<>>
    /\ WindowIsEmpty

\* C10: after the HTTP call failed, run() has written one llm_queries row
\* whose response is an error marker and a log row for the failure, no
\* predictions and no prediction_items row, and returned 0.
C10_TransportFault ==
    (Finished /\ preply.kind = "fault") =>
        /\ Written(llm_queries, "llm_queries") = 1
        /\ "error" \in DOMAIN llm_queries[Len(llm_queries)].response
        /\ llm_queries[Len(llm_queries)].prompt = pprompt
        /\ logs[Len(logs)].text = "LLM API call failed"
        /\ Written(predictions, "predictions") = 0
        /\ Written(prediction_items, "prediction_items") = 0
        /\ presult = 0

\* C10 witness: a run() whose HTTP call failed has ended.
C10_CallFailed == Finished /\ pcalls = 1 /\ preply = TransportFault

----------------------------------------------------------------------------
(* C11 *)

UniqueLinks(rows) == \A i, j \in DOMAIN rows : rows[i].link = rows[j].link => i = j

IsPrefix(s, t) == Len(s) <= Len(t) /\ SubSeq(t, 1, Len(s)) = s

(* C11: across every step of every collect() run no two stored articles   *)
(* share a link, every stored article keeps its id and all its field       *)
(* values and is never removed, and the count a source step reports is the *)
(* number of rows it really added, so that a submitted entry whose link is *)
(* already stored changes nothing and counts as 0.                         *)
C11_ArticlesUniqueImmutable ==
    [][/\ UniqueLinks(articles')
       /\ IsPrefix(articles, articles')
       /\ (Len(fetched') > Len(fetched)
             => fetched'[Len(fetched')].n = Len(articles') - Len(articles))]_vars

(* C11 witness: link "a" was stored from one source at day 1, 06:00, and   *)
(* another source then submitted it again (as " a", published at day 2);   *)
(* that step inserted nothing and the stored row is as it was.             *)
C11_StoredLinkReingested ==
    \E i \in DOMAIN fetched :
        /\ fetched[i].outcome = Feed(FALSE, DocAB)
        /\ fetched[i].n = 0
        /\ \E k \in DOMAIN articles :
              /\ articles[k].link = <<"a">>
              /\ articles[k].source # FEEDS[i]
              /\ articles[k].published_ts = Timestamp(<<1, 6, 0, 0>>)
              /\ ~ Discard(Timestamp(EntryA_Day2.published_parsed),
                           Threshold(get_latest_article_time(articles, FEEDS[i]),
                                     cnow - DaySeconds))

----------------------------------------------------------------------------
(* C12 *)

HasText(x) == x # Null /\ x # <<>>

SnippetSource(r) ==
    IF HasText(r.description) THEN r.description
    ELSE IF HasText(r.content) THEN r.content
    ELSE IF HasText(r.content_encoded) THEN r.content_encoded
    ELSE <<>>

(* C12: every row list_recent_articles returned to run() carries as its    *)
(* snippet the description of the stored article if it has one, otherwise  *)
(* its content, otherwise its encoded content, otherwise the empty text    *)
(* (cut to 300 characters); in particular the article ingested from an     *)
(* entry with content and no description has a snippet taken from the      *)
(* content.                                                                *)
C12_SnippetFallback ==
    \A i \in DOMAIN pwindow :
        \E k \in DOMAIN articles :
            /\ articles[k].link = pwindow[i].link
            /\ pwindow[i].snippet = Slice(SnippetSource(articles[k]), SnippetMax)

----------------------------------------------------------------------------
(* C13 *)

UsableTime(e) == "published_parsed" \in DOMAIN e /\ e.published_parsed # NoTime

(* A step of the loop over FEEDS, and what its fetch gave. *)
SourceStep == cpc = "loop" /\ Len(fetched') = Len(fetched) + 1
StepOutcome == fetched'[Len(fetched')].outcome
StepParsed == SourceStep /\ StepOutcome.kind = "feed" /\ ~ StepOutcome.bozo

(* C13: in a step over a source with no stored article, every entry of the *)
(* parsed feed published within the last 24 hours (later than now - 24h,   *)
(* the boundary being excluded as in C6) is submitted, so that its link is *)
(* stored when the step ends, and no row the step adds is older.           *)
C13_ColdStartCoverage ==
    [][(StepParsed /\ get_latest_article_time(articles, url).none)
        => /\ \A j \in DOMAIN StepOutcome.entries :
                 LET e == StepOutcome.entries[j]
                 IN  (UsableTime(e) /\ Timestamp(e.published_parsed) > cnow - DaySeconds)
                        => LinkStored(articles', Strip(e.link))
           /\ \A k \in (Len(articles) + 1)..Len(articles') :
                 articles'[k].published_ts > cnow - DaySeconds]_vars

----------------------------------------------------------------------------
(* C14 *)

(* The call succeeded and its message content is the JSON text of an object. *)
ContentIsObject ==
    /\ Finished
    /\ preply.kind = "response"
    /\ "choices" \in DOMAIN preply.body
    /\ preply.body.choices # <<>>
    /\ ~ReplyContent.none
    /\ ReplyContent.json
    /\ ReplyContent.value.t = "obj"

ListEntries(data, stance_key) ==
    LET v == Get(data.f, stance_key, JNull) IN IF v.t = "arr" THEN v.xs ELSE <<>>

ExpectedStances(data) ==
    [i \in 1..Len(ListEntries(data, "bullish")) |-> "bullish"]
        \o [i \in 1..Len(ListEntries(data, "bearish")) |-> "bearish"]

ItemsWritten ==
    SubSeq(prediction_items, pbase.prediction_items + 1, Len(prediction_items))

(* C14: a finished run() whose message content parsed as a JSON object has *)
(* written exactly one predictions row, with the text "Overall sentiment: " *)
(* followed by overall_sentiment ("unknown" when the key is absent), and    *)
(* one prediction_items row per entry of the bullish list, marked bullish,  *)
(* followed by one per entry of the bearish list, marked bearish.           *)
C14_SuccessPath ==
    ContentIsObject =>
        LET data == ReplyContent.value
        IN  /\ Written(predictions, "predictions") = 1
            /\ predictions[Len(predictions)].text =
                   <<"Overall sentiment: ">>
                     \o (IF "overall_sentiment" \in DOMAIN data.f
                         THEN PyStr(data.f.overall_sentiment)
                         ELSE <<"u", "n", "k", "n", "o", "w", "n">>)
            /\ [i \in DOMAIN ItemsWritten |-> ItemsWritten[i].stance] = ExpectedStances(data)

----------------------------------------------------------------------------
(* C15, checked under SpecSave *)

FailingRows(batch) == {i \in DOMAIN batch : RowRaises(batch[i])}

(* C15: after a call of save_articles with a batch in which the insert of  *)
(* exactly one row fails, whatever its position, the call has returned     *)
(* without raising, the failure is the one row the call added to the log,  *)
(* the failing row is not stored, every other row of the batch is stored,  *)
(* and the value returned is the number of rows the call added.            *)
C15_RowFaultIsolated ==
    (sruns > 0 /\ Cardinality(FailingRows(scall.batch)) = 1) =>
        /\ ~scall.raised
        /\ Len(logs) = scall.logs + 1
        /\ logs[Len(logs)].source = "db"
        /\ \A i \in DOMAIN scall.batch :
              LinkStored(articles, Strip(scall.batch[i].link)) <=> i \notin FailingRows(scall.batch)
        /\ scall.n = Len(articles) - scall.articles

----------------------------------------------------------------------------
(* C16, checked under SpecCollect *)

(* C16: in a step over a parsed feed that has an entry without a usable    *)
(* publish timestamp (published_parsed absent, or present but None), no    *)
(* row the step adds comes from such an entry, every other entry that      *)
(* passes the threshold is submitted, so that its link is stored when the  *)
(* step ends, and the loop goes on to the next source.                     *)
C16_TimestamplessDiscarded ==
    [][(StepParsed /\ \E j \in DOMAIN StepOutcome.entries : ~UsableTime(StepOutcome.entries[j]))
        => /\ cpc' = "loop"
           /\ cidx' = cidx + 1
           /\ \A k \in (Len(articles) + 1)..Len(articles') :
                 \E j \in DOMAIN StepOutcome.entries :
                     LET e == StepOutcome.entries[j]
                     IN  /\ UsableTime(e)
                         /\ articles'[k].link = Strip(e.link)
                         /\ articles'[k].published_ts = Timestamp(e.published_parsed)
           /\ \A j \in DOMAIN StepOutcome.entries :
                 LET e == StepOutcome.entries[j]
                 IN  (UsableTime(e) /\ ~Discard(Timestamp(e.published_parsed), threshold))
                        => LinkStored(articles', Strip(e.link))]_vars

----------------------------------------------------------------------------
(* C17, checked under SpecPredict *)

IsLongItem(item) ==
    /\ item.t = "obj"
    /\ Len(Strip(PyStr(Get(item.f, "asset", JStr(<<"?">>))))) > AssetMax

LongEntries(data) ==
    LET all == ListEntries(data, "bullish") \o ListEntries(data, "bearish")
    IN  {i \in DOMAIN all : IsLongItem(all[i])}

TruncatedRows ==
    {i \in DOMAIN ItemsWritten :
        \E item \in {ItemLong} :
            ItemsWritten[i].asset = SubSeq(Strip(PyStr(item.f.asset)), 1, AssetMax)}

(* C17: every prediction_items row has an asset of at most 64 characters;  *)
(* and when a finished run() was answered with an object that has entries  *)
(* whose trimmed asset is longer, each of them is stored, with the first   *)
(* 64 characters of the trimmed asset, and is counted in the value the     *)
(* run returned.                                                           *)
C17_AssetTruncation ==
    /\ \A i \in DOMAIN prediction_items : Len(prediction_items[i].asset) <= AssetMax
    /\ ContentIsObject =>
          /\ Cardinality(TruncatedRows) = Cardinality(LongEntries(ReplyContent.value))
          /\ presult >= Cardinality(TruncatedRows)

----------------------------------------------------------------------------
(* C18, checked under SpecPredict *)

(* run() was entered with a key and no article qualified when it read the  *)
(* window, which is the one list it would build the prompt from.           *)
KeyedRunEmptyWindow == pruns > 0 /\ pkey # <<>> /\ pwindow = <<>>

(* C18 as stated: a run with a key for which no article qualifies has the  *)
(* fixed sentence as its user prompt and has invoked the LLM with it.      *)
C18_SentinelPath == KeyedRunEmptyWindow => (pprompt = Sentinel /\ pcalls = 1)

(* C18, amended: build_prompt gives the fixed sentence for an empty list,  *)
(* but run() never sends it: a run for which no article qualifies builds   *)
(* no prompt and issues no call, and whenever a call is issued the user    *)
(* prompt is the context built from the non-empty window.                  *)
C18_SentinelNeverSent ==
    /\ build_prompt(<<>>) = Sentinel
    /\ pprompt # Sentinel
    /\ KeyedRunEmptyWindow => (pprompt = NoPrompt /\ pcalls = 0)
    /\ pcalls = 1 => (pwindow # <<>> /\ pprompt = build_prompt(pwindow)
                                     /\ pprompt.kind = "context")

(* C18 witness: a run with a key found no qualifying article in a store    *)
(* that holds articles, and ended without a prompt or a call.              *)
C18_EmptyWindowNoPrompt ==
    /\ Finished
    /\ KeyedRunEmptyWindow
    /\ articles # <<>>
    /\ pprompt = NoPrompt
    /\ pcalls = 0
    /\ presult = 0

----------------------------------------------------------------------------
(* C19, checked under SpecApp *)

(* C19: no store connection was open when the last feed fetch or the last  *)
(* LLM HTTP call was issued, none is open while run() waits for the HTTP   *)
(* reply or collect() waits for the worker of a fetch, and none is left    *)
(* open between two steps: every storage call has closed the connections   *)
(* it opened.                                                              *)
C19_NoConnectionAcrossCall ==
    /\ callConns = 0
    /\ ppc = "http" => conns = 0
    /\ cpc = "join" => conns = 0
    /\ conns = 0

(* C19 witness: collect() has fetched feeds and stored articles, and run() *)
(* has then read them, logged, and is waiting for the reply to its HTTP    *)
(* call.                                                                   *)
C19_WaitingOnCallAfterFetch ==
    /\ ppc = "http"
    /\ pcalls = 1
    /\ cruns > 0
    /\ fetched # <<>>
    /\ articles # <<>>
    /\ Len(logs) > 0

----------------------------------------------------------------------------
(* C20, checked under SpecCollect *)

Sources == {FEEDS[i] : i \in DOMAIN FEEDS}

(* The threshold a run reading the clock as `now` computes for a source. *)
ThresholdOf(rows, source, now) ==
    Threshold(get_latest_article_time(rows, source), now - DaySeconds)

(* The thresholds collect() logged for a source, oldest first. *)
ThresholdsLogged(lg, source) ==
    LET rows == SelectSeq(lg, LAMBDA r : r.source = "rss" /\ r.text = "using threshold"
                                          /\ r.about = source)
    IN  [i \in DOMAIN rows |-> rows[i].n]

NonDecreasing(ns) == \A i, j \in DOMAIN ns : i < j => ns[i] <= ns[j]

EntryTimes ==
    UNION {{Timestamp(doc[j].published_parsed) : j \in {k \in DOMAIN doc : UsableTime(doc[k])}}
              : doc \in Docs}

(* C20: with clock readings that do not decrease, no step lowers the       *)
(* threshold a run computes for a source, the thresholds the runs logged   *)
(* for a source never decrease from one run to the next, and a publish     *)
(* time the threshold of a source rejects is rejected after every step.    *)
C20_WatermarkMonotone ==
    [][\A source \in Sources :
          clock' >= clock =>
            /\ ThresholdOf(articles', source, clock') >= ThresholdOf(articles, source, clock)
            /\ NonDecreasing(ThresholdsLogged(logs', source))
            /\ \A ts \in EntryTimes :
                  Discard(ts, ThresholdOf(articles, source, clock))
                     => Discard(ts, ThresholdOf(articles', source, clock'))]_vars

(* C20 witness: two runs have logged thresholds for one source, the later  *)
(* one higher, and an entry time the earlier run let through is rejected   *)
(* by the later.                                                           *)
C20_ThresholdRose ==
    /\ cruns = 2
    /\ \E source \in Sources :
          LET ns == ThresholdsLogged(logs, source)
          IN  /\ Len(ns) = 2
              /\ ns[1] < ns[2]
              /\ \E ts \in EntryTimes : ~Discard(ts, ns[1]) /\ Discard(ts, ns[2])

----------------------------------------------------------------------------
(* C21, checked under SpecPredict *)

Positions(table) == {i \in DOMAIN pwrites : pwrites[i] = table}

(* C21: the writes of the current run(), taken in their order, hold at     *)
(* most one write of a predictions row, and every write of a               *)
(* prediction_items row comes after a write of an llm_queries row and      *)
(* after a write of a predictions row of the same run; the rows the run    *)
(* added to the three tables are exactly these writes.                     *)
C21_PredictionWriteOrder ==
    /\ Cardinality(Positions("predictions")) <= 1
    /\ \A i \in Positions("prediction_items") :
          /\ \E j \in Positions("llm_queries") : j < i
          /\ \E j \in Positions("predictions") : j < i
    /\ pruns > 0 =>
          /\ Written(predictions, "predictions") = Cardinality(Positions("predictions"))
          /\ Written(prediction_items, "prediction_items")
                = Cardinality(Positions("prediction_items"))
          /\ Written(llm_queries, "llm_queries") = Cardinality(Positions("llm_queries"))

(* C21 witness: a finished run wrote items of both stances after its audit *)
(* row and its predictions row, and then failed on a later entry, which    *)
(* added a second audit row and no second predictions row.                 *)
C21_ItemsThenFailure ==
    /\ Finished
    /\ Cardinality(Positions("prediction_items")) >= 1
    /\ Cardinality(Positions("llm_queries")) = 2
    /\ Cardinality(Positions("predictions")) = 1
    /\ \E i \in Positions("prediction_items"), j \in Positions("llm_queries") : i < j

====
